---- MODULE Spec2Model ----
(***************************************************************************)
(* Model of the devpattern documentation worker: event intake and          *)
(* dispatch, bounded retry and dead-lettering, the batch accumulator, the  *)
(* staged summarizer, the idle session scanner and the batch response      *)
(* parser.  JavaScript runs one callback at a time, so every action below  *)
(* is one synchronous section of the code: from one await to the next.     *)
(***************************************************************************)
EXTENDS Integers, Sequences, FiniteSets, TLC

VARIABLES
    \* ---- parseBatchResponse (prompts/batch-session) ----
    response,        \* the response text, as its sequence of markers and text runs
    expected,        \* the ids of the `sessions` argument
    parsedDocs,      \* the returned Map: session id -> content
    parsePc,         \* "ready" | "done" | "error"
    \* ---- Summarizer.generateDocumentation ----
    sumThoughts,     \* the thoughts of the session context, in their order
    sumI,            \* loop variable i of stagedSummarization
    stageSummaries,  \* the summaries pushed so far (each names the chunk it sums up)
    sumCalls,        \* every generation call issued so far, in issue order
    sumSaved,        \* the document handed to saveDocumentation, or NoDoc
    sumPc,           \* position of the run
    \* ---- configuration and clock ----
    config,          \* the loaded Config: maxRetries, batchSize
    budget,          \* what the environment may still do: events published, clock steps
    now,             \* Date.now(), in milliseconds
    \* ---- Storage (the shared data directory) ----
    session,         \* session.json of each session id, or NoSession
    thoughts,        \* thoughts.json of each session id: how many thoughts it holds
    tasks,           \* tasks.json of each session id: the status of each task
    documentation,   \* documentation.json of each session id, or NoDocumentation
    \* ---- Redis ----
    bus,             \* messages published on devpattern:events, not yet delivered
    published,       \* how many messages have been published
    retry_queue,     \* the sorted set devpattern:retry_queue: {[member, score]}
    dead_letter,     \* the list devpattern:dead_letter, head first
    \* ---- DocumentationWorker ----
    handlers,        \* the handleEvent calls in flight, each at its await
    processedCount,
    drains,          \* the retry processor's interval callbacks in flight
    lastDrain,       \* the time of the last interval callback
    shutdownPc,      \* "running" | "flushing" | "exited" | "failed" | "crashed"
    \* ---- BatchProcessor ----
    pendingQueue,    \* the Map, as its entries in insertion order
    batchTimer,      \* TRUE when the batchTimer field holds a timeout handle
    windowTimeouts,  \* the number of timeouts set for processBatch, neither fired nor cleared
    flushes,         \* the processBatch calls whose generation calls are in flight
    \* ---- IdleSessionScanner ----
    scans            \* the scan() calls in flight, each at its await

parseVars == <<response, expected, parsedDocs, parsePc>>
sumVars == <<sumThoughts, sumI, stageSummaries, sumCalls, sumSaved, sumPc>>
storeVars == <<session, thoughts, tasks, documentation>>
redisVars == <<bus, published, retry_queue, dead_letter>>
workerVars == <<handlers, processedCount, drains, lastDrain, shutdownPc>>
batchVars == <<pendingQueue, batchTimer, windowTimeouts, flushes>>
pipeVars == <<config, budget, now, storeVars, redisVars, workerVars, batchVars, scans>>
vars == <<parseVars, sumVars, pipeVars>>

SessionIds == {"s1", "s2", "s3"}

Min(a, b) == IF a < b THEN a ELSE b

(***************************************************************************)
(* parseBatchResponse.  The response is the sequence of the things the     *)
(* regular expression tells apart: a SESSION_START marker with its id, a   *)
(* SESSION_END marker, and any other text.                                 *)
(***************************************************************************)
MaxRespLen == 4

StartTok(id) == [k |-> "start", id |-> id]
EndTok == [k |-> "end", id |-> "-"]
TextTok == [k |-> "text", id |-> "-"]
Tokens == {StartTok(id) : id \in SessionIds} \cup {EndTok, TextTok}

Responses == UNION {[1..n -> Tokens] : n \in 0..MaxRespLen}

\* The lazy body ([\s\S]*?) stops at the first SESSION_END after position p.
FirstEndAfter(resp, p) ==
    IF \E q \in (p + 1)..Len(resp) : resp[q].k = "end"
    THEN CHOOSE q \in (p + 1)..Len(resp) :
            /\ resp[q].k = "end"
            /\ \A r \in (p + 1)..(q - 1) : resp[r].k # "end"
    ELSE 0

\* sessionPattern.exec from lastIndex: the leftmost SESSION_START at or after
\* lastIndex from which the whole pattern matches.
ExecStart(resp, lastIndex) ==
    IF \E p \in lastIndex..Len(resp) :
            resp[p].k = "start" /\ FirstEndAfter(resp, p) # 0
    THEN CHOOSE p \in lastIndex..Len(resp) :
            /\ resp[p].k = "start" /\ FirstEndAfter(resp, p) # 0
            /\ \A r \in lastIndex..(p - 1) :
                  ~(resp[r].k = "start" /\ FirstEndAfter(resp, r) # 0)
    ELSE 0

\* docs.set(sessionId, ...): a later block of the same id replaces the earlier.
MapSet(m, key, val) ==
    [x \in (DOMAIN m) \cup {key} |-> IF x = key THEN val ELSE m[x]]

EmptyMap == [x \in {} |-> <<>>]

RECURSIVE ParseLoop(_, _, _)
ParseLoop(resp, lastIndex, docs) ==
    LET p == ExecStart(resp, lastIndex) IN
    IF p = 0 THEN docs
    ELSE LET q == FirstEndAfter(resp, p) IN
         ParseLoop(resp, q + 1, MapSet(docs, resp[p].id, SubSeq(resp, p + 1, q - 1)))

parseBatchResponse(resp, sessions) == ParseLoop(resp, 1, EmptyMap)

InitParse ==
    /\ response \in Responses
    /\ expected \in (SUBSET SessionIds) \ {{}}
    /\ parsedDocs = EmptyMap
    /\ parsePc = "ready"

IdleParse ==
    /\ response = <<>>
    /\ expected = {}
    /\ parsedDocs = EmptyMap
    /\ parsePc = "idle"

ParseCall ==
    /\ parsePc = "ready"
    /\ parsedDocs' = parseBatchResponse(response, expected)
    /\ parsePc' = "done"
    /\ UNCHANGED <<response, expected, sumVars, pipeVars>>

(***************************************************************************)
(* Summarizer.generateDocumentation: single pass, or staged summarization  *)
(* for more than STAGE_SIZE thoughts.                                      *)
(***************************************************************************)
STAGE_SIZE == 20
MaxThoughts == 45

NoDoc == [thoughtCount |-> -1]

\* a slice that takes one element too many
SliceInclusive(s, from, to) == SubSeq(s, from + 1, Min(to + 1, Len(s)))

\* thoughts.slice(i, i + STAGE_SIZE), i counted from 0
Slice(s, from, to) == SubSeq(s, from + 1, Min(to, Len(s)))

\* Math.ceil(thoughts.length / STAGE_SIZE)
CeilDiv(n, d) == (n + d - 1) \div d

StageCall(chunk, stageNum, totalStages) ==
    [kind |-> "stage", chunk |-> chunk, stageNum |-> stageNum,
     totalStages |-> totalStages, summaries |-> <<>>]

SynthesisCall(summaries) ==
    [kind |-> "synthesis", chunk |-> <<>>, stageNum |-> 0,
     totalStages |-> 0, summaries |-> summaries]

SingleCall(chunk) ==
    [kind |-> "single", chunk |-> chunk, stageNum |-> 0,
     totalStages |-> 0, summaries |-> <<>>]

InitSum ==
    /\ sumThoughts \in {[j \in 1..n |-> j] : n \in 0..MaxThoughts}
    /\ sumI = 0
    /\ stageSummaries = <<>>
    /\ sumCalls = <<>>
    /\ sumSaved = NoDoc
    /\ sumPc = "start"

IdleSum ==
    /\ sumThoughts = <<>>
    /\ sumI = 0
    /\ stageSummaries = <<>>
    /\ sumCalls = <<>>
    /\ sumSaved = NoDoc
    /\ sumPc = "idle"

\* generateDocumentation: the choice of the pass, and the first call of it.
\* The loop of stagedSummarization runs up to its first await.
IssueStage ==
    /\ sumI < Len(sumThoughts)
    /\ sumCalls' = Append(sumCalls,
          StageCall(Slice(sumThoughts, sumI, sumI + STAGE_SIZE),
                    (sumI \div STAGE_SIZE) + 1,
                    CeilDiv(Len(sumThoughts), STAGE_SIZE)))
    /\ sumPc' = "stage"

GenerateDocumentation ==
    /\ sumPc = "start"
    /\ IF Len(sumThoughts) > STAGE_SIZE
       THEN IssueStage
       ELSE /\ sumCalls' = Append(sumCalls, SingleCall(sumThoughts))
            /\ sumPc' = "single"
    /\ UNCHANGED <<sumThoughts, sumI, stageSummaries, sumSaved, parseVars, pipeVars>>

\* A stage call returns: push its summary, i += STAGE_SIZE, and go round the
\* loop to the next call (the next stage, or the synthesis after the last).
StageReturns ==
    /\ sumPc = "stage"
    /\ stageSummaries' = Append(stageSummaries, sumCalls[Len(sumCalls)].chunk)
    /\ sumI' = sumI + STAGE_SIZE
    /\ IF sumI' < Len(sumThoughts)
       THEN /\ sumCalls' = Append(sumCalls,
                  StageCall(Slice(sumThoughts, sumI', sumI' + STAGE_SIZE),
                            (sumI' \div STAGE_SIZE) + 1,
                            CeilDiv(Len(sumThoughts), STAGE_SIZE)))
            /\ sumPc' = "stage"
       ELSE /\ sumCalls' = Append(sumCalls, SynthesisCall(stageSummaries'))
            /\ sumPc' = "synthesis"
    /\ UNCHANGED <<sumThoughts, sumSaved, parseVars, pipeVars>>

\* The synthesis (or the single pass) returns: build the document and save it.
FinalReturns ==
    /\ sumPc \in {"synthesis", "single"}
    /\ sumSaved' = [thoughtCount |-> Len(sumThoughts)]
    /\ sumPc' = "saved"
    /\ UNCHANGED <<sumThoughts, sumI, stageSummaries, sumCalls, parseVars, pipeVars>>

\* Any generation call may fail: the rejection leaves the run where it is.
CallFails ==
    /\ sumPc \in {"stage", "synthesis", "single"}
    /\ sumPc' = "failed"
    /\ UNCHANGED <<sumThoughts, sumI, stageSummaries, sumCalls, sumSaved, parseVars, pipeVars>>

(***************************************************************************)
(* The pipeline: configuration, clock, store and Redis.  Times are in      *)
(* milliseconds; the clock moves in steps of the retry processor's         *)
(* interval.                                                               *)
(***************************************************************************)
TickMs == 5000
retryDelays == <<5000, 30000, 120000>>
SmallSessionThreshold == 20

MaxRetriesBound == 2
MaxEvents == 2
MaxTicks == 1
MaxAppends == 1
MaxPendingEvents == 3
MaxJointTicks == 2
MaxLongEvents == 1
MaxLongTicks == 8
MaxFreshEvents == 1
MaxFreshTicks == 2
MaxRaceEvents == 2
MaxRaceTicks == 1
MaxRetryTicks == 2
MaxBatchSize == 2
MaxBatchEvents == 2
MaxScans == 2
MaxScanTicks == 2
MaxTasks == 2
MaxHandlers == 2
MaxDrains == 2
MaxFlushes == 2

\* The configurations of the worker specification: every flush is size-triggered.
Configs == [maxRetries : 0..MaxRetriesBound, batchSize : {1}]
\* The configurations of the retry specification: retries are on.
RetryConfigs == [maxRetries : 1..MaxRetriesBound, batchSize : {1}]
\* The configurations of the accumulator specification: no retries.
BatchConfigs == [maxRetries : {0}, batchSize : 1..MaxBatchSize]

\* The configuration of the long retry specification: two retries.
LongRetryConfigs == [maxRetries : {2}, batchSize : {1}]

\* The configuration of the race specification: every session flushed alone.
RaceConfigs == [maxRetries : {0}, batchSize : {1}]

FinalizationTypes == {"session.finalized", "session.idle_timeout"}

NoSession == [updatedAt |-> -1, tier |-> "-", status |-> "-", outcome |-> "-",
              autoFinalized |-> FALSE]
\* a session the producer has finalized
Finalized(at, tier) ==
    [updatedAt |-> at, tier |-> tier, status |-> "finalized", outcome |-> "completed",
     autoFinalized |-> FALSE]
NoDocumentation == [generatedAt |-> -1, thoughtCount |-> -1, taskCount |-> -1]
NoEvent == [type |-> "-", sessionId |-> "-", retryCount |-> 0, uid |-> 0, outcome |-> "-"]
NoCtx == [id |-> "-", updatedAt |-> -1, tier |-> "-", thoughtCount |-> -1, taskCount |-> -1]

\* Storage.getSessionContext: the session with its thoughts and tasks
getSessionContext(id) ==
    [id |-> id, updatedAt |-> session[id].updatedAt, tier |-> session[id].tier,
     thoughtCount |-> thoughts[id], taskCount |-> Len(tasks[id])]

\* the DocumentationEntry built from a context at the current time
DocumentationEntry(ctx) ==
    [generatedAt |-> now, thoughtCount |-> ctx.thoughtCount, taskCount |-> ctx.taskCount]

\* The store at start: s1 is a basic session with just as many thoughts as
\* the batch path takes, s2 a premium one without thoughts; s3 has `large`
\* thoughts and is there from the start or stored later by the producer.
InitStore(s3There, large) ==
    /\ session = [id \in SessionIds |->
          IF id = "s1" THEN Finalized(0, "basic")
          ELSE IF id = "s2" THEN Finalized(0, "premium")
          ELSE IF s3There THEN Finalized(0, "basic")
          ELSE NoSession]
    /\ thoughts = [id \in SessionIds |->
          IF id = "s1" THEN SmallSessionThreshold
          ELSE IF id = "s2" THEN 0 ELSE large]
    /\ tasks = [id \in SessionIds |-> <<"completed">>]
    /\ documentation = [id \in SessionIds |-> NoDocumentation]

(***************************************************************************)
(* DocumentationWorker.handleEvent and what it awaits.                     *)
(***************************************************************************)
IdleHandler ==
    [pc |-> "idle", ev |-> NoEvent, ctx |-> NoCtx, caller |-> 0, i |-> 0,
     out |-> NoEvent, score |-> 0, err |-> "-", doc |-> NoDocumentation]

IdleDrain == [pc |-> "idle", now |-> 0, items |-> <<>>, idx |-> 0]

FreeSlots(f, idle) == {x \in DOMAIN f : f[x] = idle}
FirstFree(f, idle) == CHOOSE x \in FreeSlots(f, idle) : \A y \in FreeSlots(f, idle) : x <= y

\* event.payload.retryCount || 0
RetryCountOf(ev) == ev.retryCount

\* a retry that is due at once
RetryDelayNone(retryCount) == 0

\* config.retryDelays[retryCount - 1] || config.retryDelays[config.retryDelays.length - 1]
RetryDelay(retryCount) ==
    IF retryCount \in 1..Len(retryDelays)
    THEN retryDelays[retryCount]
    ELSE retryDelays[Len(retryDelays)]

\* a catch block that schedules the retry with the count it received
CatchErrorSameCount(hr, err) ==
    IF RetryCountOf(hr.ev) < config.maxRetries
    THEN [hr EXCEPT !.pc = "zadd", !.out = hr.ev,
                    !.score = now + RetryDelay(RetryCountOf(hr.ev) + 1)]
    ELSE [hr EXCEPT !.pc = "lpush", !.out = hr.ev, !.err = err, !.score = now]

\* a catch block that still retries at the maximum
CatchErrorInclusive(hr, err) ==
    IF RetryCountOf(hr.ev) <= config.maxRetries
    THEN [hr EXCEPT !.pc = "zadd",
                    !.out = [hr.ev EXCEPT !.retryCount = RetryCountOf(hr.ev) + 1],
                    !.score = now + RetryDelay(RetryCountOf(hr.ev) + 1)]
    ELSE [hr EXCEPT !.pc = "lpush", !.out = hr.ev, !.err = err, !.score = now]

\* The catch block of handleEvent, up to the await of zadd or lpush:
\* scheduleRetry builds the retry event and its due time, moveToDeadLetter the
\* entry.
CatchError(hr, err) ==
    IF RetryCountOf(hr.ev) < config.maxRetries
    THEN [hr EXCEPT !.pc = "zadd",
                    !.out = [hr.ev EXCEPT !.retryCount = RetryCountOf(hr.ev) + 1],
                    !.score = now + RetryDelay(RetryCountOf(hr.ev) + 1)]
    ELSE [hr EXCEPT !.pc = "lpush", !.out = hr.ev, !.err = err, !.score = now]

\* The for loop of the retry processor goes on to its next item (the await of
\* its zrem), or ends.
DrainNext(dr) ==
    IF dr.idx < Len(dr.items)
    THEN [dr EXCEPT !.idx = @ + 1, !.pc = "zrem"]
    ELSE IdleDrain

\* The worker's own tasks, as one value the continuations below transform.
Worker == [handlers |-> handlers, drains |-> drains, processedCount |-> processedCount]

\* handleEvent returns: the caller (the message callback, or the retry
\* processor's loop) goes on.
Finish(W, h) ==
    LET d == W.handlers[h].caller IN
    [W EXCEPT !.handlers[h] = IdleHandler,
              !.drains = IF d = 0 THEN @ ELSE [@ EXCEPT ![d] = DrainNext(@)]]

\* processSession returned: processedCount++
Succeed(W, h) == Finish([W EXCEPT !.processedCount = @ + 1], h)

\* a handler that swallows the failure and counts the event as processed
CatchSwallow(W, h, err) == Succeed(W, h)

\* processSession threw
Catch(W, h, err) == [W EXCEPT !.handlers[h] = CatchError(@, err)]

SetWorker(W) ==
    /\ handlers' = W.handlers
    /\ drains' = W.drains
    /\ processedCount' = W.processedCount

\* a type test that lets every event through
AcceptedAny(ev) == TRUE

\* The type test of handleEvent
Accepted(ev) == ev.type = "session.finalized" \/ ev.type = "session.idle_timeout"

\* handleEvent up to its first await (the read of the session context)
StartHandler(ev, caller) ==
    [IdleHandler EXCEPT !.pc = "ctx", !.ev = ev, !.caller = caller]

Alive == shutdownPc \in {"running", "flushing", "failed"}

(***************************************************************************)
(* BatchProcessor                                                          *)
(***************************************************************************)
NoGroup == [pc |-> "none", members |-> <<>>, resp |-> <<>>, parsed |-> {},
            idx |-> 0, doc |-> NoDocumentation]
IdleFlush == [waiter |-> [kind |-> "-", h |-> 0], settled |-> FALSE, basic |-> NoGroup, premium |-> NoGroup]
Tiers == {"basic", "premium"}

\* a list that takes every entry, also for an id it holds already
MapPutAppend(pq, ctx) == Append(pq, ctx)

\* pendingQueue.set(id, ctx): a Map keeps the place of a key it already holds
MapPut(pq, ctx) ==
    IF \E j \in 1..Len(pq) : pq[j].id = ctx.id
    THEN [j \in 1..Len(pq) |-> IF pq[j].id = ctx.id THEN ctx ELSE pq[j]]
    ELSE Append(pq, ctx)

\* a batch that is one entry short
TakeBatchShort(pq) == SubSeq(pq, 1, Min(Len(pq), config.batchSize - 1))
\* a delete that removes nothing
AfterDeleteNone(pq, taken) == pq

\* Array.from(pendingQueue.values()).slice(0, config.batchSize)
TakeBatch(pq) == SubSeq(pq, 1, Min(Len(pq), config.batchSize))
\* what sessions.forEach(s => pendingQueue.delete(s.session.id)) leaves
AfterDelete(pq, taken) ==
    SelectSeq(pq, LAMBDA c : \A j \in 1..Len(taken) : taken[j].id # c.id)

\* processTierBatch up to its await of the generation call
TierGroup(members) ==
    IF Len(members) = 0 THEN NoGroup
    ELSE [NoGroup EXCEPT !.pc = "call", !.members = members]

\* a grouping that puts every session into the basic group
NewFlushAllBasic(taken, waiter) ==
    [waiter |-> waiter, settled |-> FALSE,
     basic |-> TierGroup(taken), premium |-> NoGroup]

\* processBatch, from the grouping by tier to the two calls in flight
NewFlush(taken, waiter) ==
    [waiter |-> waiter, settled |-> FALSE,
     basic |-> TierGroup(SelectSeq(taken, LAMBDA c : c.tier # "premium")),
     premium |-> TierGroup(SelectSeq(taken, LAMBDA c : c.tier = "premium"))]

\* a save loop that writes a document for every member, block or not
SaveLoopAny(g, j) ==
    IF j <= Len(g.members)
    THEN [g EXCEPT !.pc = "save", !.idx = j, !.doc = DocumentationEntry(g.members[j])]
    ELSE [NoGroup EXCEPT !.pc = "done", !.resp = g.resp]

\* The save loop of processTierBatch from member j on, up to its next await:
\* members without a parsed block are skipped, the first with one has its
\* document built and the write started.
SaveLoop(g, j) ==
    IF \E m \in j..Len(g.members) : g.members[m].id \in g.parsed
    THEN LET m == CHOOSE m \in j..Len(g.members) :
                     /\ g.members[m].id \in g.parsed
                     /\ \A r \in j..(m - 1) : g.members[r].id \notin g.parsed
         IN [g EXCEPT !.pc = "save", !.idx = m, !.doc = DocumentationEntry(g.members[m])]
    ELSE [NoGroup EXCEPT !.pc = "done", !.resp = g.resp]

GroupOver(g) == g.pc \in {"none", "done", "failed"}

\* A response of well-formed blocks for the ids of K, in some order.
RECURSIVE BlocksFor(_)
BlocksFor(K) ==
    IF K = {} THEN <<>>
    ELSE LET id == CHOOSE id \in K : TRUE
         IN <<StartTok(id), TextTok, EndTok>> \o BlocksFor(K \ {id})

\* A response in which the block of a has lost its SESSION_END marker and is
\* followed by a well-formed block of b.
Unterminated(a, b) ==
    <<StartTok(a), TextTok, StartTok(b), TextTok, EndTok>>

\* The responses of the generation service to a batch prompt.
GenerationResponses ==
    {BlocksFor(K) : K \in SUBSET SessionIds} \cup
    {Unterminated(a, b) : a \in SessionIds, b \in SessionIds}

InitBatch ==
    /\ pendingQueue = <<>>
    /\ batchTimer = FALSE
    /\ windowTimeouts = 0
    /\ flushes = [f \in 1..MaxFlushes |-> IdleFlush]

(***************************************************************************)
(* IdleSessionScanner                                                      *)
(***************************************************************************)
idleTimeoutMinutes == 10
idleTimeoutMs == idleTimeoutMinutes * 60 * 1000

IdleScan == [pc |-> "idle", now |-> 0, items |-> <<>>, idx |-> 0, outcome |-> "-",
             sess |-> NoSession]

\* the order of the directory listing
IdBefore(a, b) == (a = "s1" /\ b # "s1") \/ (a = "s2" /\ b = "s3")

\* Storage.listActiveSessions: the sessions whose status is active or completed,
\* each with its id
RECURSIVE ListOf(_)
ListOf(ids) ==
    IF ids = {} THEN <<>>
    ELSE LET id == CHOOSE a \in ids : \A b \in ids : a = b \/ IdBefore(a, b)
         IN <<[id |-> id, rec |-> session[id]]>> \o ListOf(ids \ {id})
listActiveSessions ==
    ListOf({id \in SessionIds : session[id].status \in {"active", "completed"}})

\* The loop of scan from item j on, up to its next await: sessions that are
\* not idle for longer than the timeout are passed over, the first that is has
\* autoFinalize called, which reads the tasks.
ScanLoop(sc, j) ==
    LET idle(m) == sc.now - sc.items[m].rec.updatedAt > idleTimeoutMs IN
    IF \E m \in j..Len(sc.items) : idle(m)
    THEN LET m == CHOOSE m \in j..Len(sc.items) :
                     idle(m) /\ \A r \in j..(m - 1) : ~idle(r)
         IN [sc EXCEPT !.pc = "tasks", !.idx = m]
    ELSE IdleScan

\* an outcome derived from the first task alone
OutcomeOfFirst(taskList) ==
    IF Len(taskList) > 0 /\ taskList[1] = "completed" THEN "completed" ELSE "abandoned"

\* const outcome = completedTasks > 0 ? 'completed' : 'abandoned'
Outcome(taskList) ==
    IF Len(SelectSeq(taskList, LAMBDA t : t = "completed")) > 0
    THEN "completed" ELSE "abandoned"

\* The event autoFinalize publishes
IdleTimeoutEvent(id, outcome) ==
    [type |-> "session.idle_timeout", sessionId |-> id, retryCount |-> 0, uid |-> 0,
     outcome |-> outcome]

(***************************************************************************)
(* The actions of the pipeline                                             *)
(***************************************************************************)
others == <<parseVars, sumVars, config, budget, scans>>

InitPipe(configs, events, ticks, s3There, large) ==
    /\ config \in configs
    /\ budget = [events |-> events, ticks |-> ticks]
    /\ now = 0
    /\ InitStore(s3There, large)
    /\ bus = <<>> /\ published = 0 /\ retry_queue = {} /\ dead_letter = <<>>
    /\ handlers = [h \in 1..MaxHandlers |-> IdleHandler]
    /\ processedCount = 0
    /\ drains = [d \in 1..MaxDrains |-> IdleDrain]
    /\ lastDrain = 0
    /\ shutdownPc = "running"
    /\ InitBatch
    /\ scans = [c \in 1..MaxScans |-> IdleScan]

\* Time passes.
Tick ==
    /\ Alive
    /\ now < budget.ticks * TickMs
    /\ now' = now + TickMs
    /\ UNCHANGED <<others, storeVars, redisVars, workerVars, batchVars>>

\* The upstream producer stores a session that was not there yet.
ProducerCreates(id) ==
    /\ Alive
    /\ session[id] = NoSession
    /\ session' = [session EXCEPT ![id] =
          Finalized(now, "basic")]
    /\ UNCHANGED <<others, now, thoughts, tasks, documentation, redisVars, workerVars,
                   batchVars>>

\* The upstream producer adds a thought to a stored session and refreshes its
\* updatedAt.
ProducerAppends(id) ==
    /\ Alive
    /\ session[id] # NoSession
    /\ thoughts[id] < SmallSessionThreshold + MaxAppends
    /\ thoughts' = [thoughts EXCEPT ![id] = @ + 1]
    /\ session' = [session EXCEPT ![id].updatedAt = now]
    /\ UNCHANGED <<others, now, tasks, documentation, redisVars, workerVars, batchVars>>

\* The upstream producer adds a task to a stored session and refreshes its
\* updatedAt.
ProducerAddsTask(id) ==
    /\ Alive
    /\ session[id] # NoSession
    /\ Len(tasks[id]) < MaxTasks
    /\ tasks' = [tasks EXCEPT ![id] = Append(@, "pending")]
    /\ session' = [session EXCEPT ![id].updatedAt = now]
    /\ UNCHANGED <<others, now, thoughts, documentation, redisVars, workerVars, batchVars>>

\* A producer publishes an event on devpattern:events.
Publish(type, id) ==
    /\ Alive
    /\ bus = <<>>
    /\ published < budget.events
    /\ published' = published + 1
    /\ bus' = Append(bus, [type |-> type, sessionId |-> id, retryCount |-> 0,
                           uid |-> published + 1, outcome |-> "-"])
    /\ UNCHANGED <<others, now, storeVars, retry_queue, dead_letter, workerVars, batchVars>>

\* The subscriber's message callback: handleEvent up to its first await.
Deliver ==
    /\ Alive
    /\ bus # <<>>
    /\ bus' = Tail(bus)
    /\ IF Accepted(Head(bus))
       THEN /\ FreeSlots(handlers, IdleHandler) # {}
            /\ handlers' = [handlers EXCEPT ![FirstFree(handlers, IdleHandler)] =
                               StartHandler(Head(bus), 0)]
       ELSE UNCHANGED handlers
    /\ UNCHANGED <<others, now, storeVars, published, retry_queue, dead_letter,
                   processedCount, drains, lastDrain, shutdownPc, batchVars>>

\* processSession: getSessionContext has answered.
ContextLoaded(h) ==
    /\ Alive
    /\ handlers[h].pc = "ctx"
    /\ LET id == handlers[h].ev.sessionId IN
       IF session[id] = NoSession
       THEN SetWorker(Catch(Worker, h, "Session not found"))
       ELSE SetWorker([Worker EXCEPT !.handlers[h].pc = "doc",
                                     !.handlers[h].ctx = getSessionContext(id)])
    /\ UNCHANGED <<others, now, storeVars, redisVars, lastDrain, shutdownPc, batchVars>>

\* a cache test that wants the document to be newer by a clock step
UpToDateStrict(existingDoc, ctx) ==
    /\ existingDoc # NoDocumentation
    /\ existingDoc.generatedAt > ctx.updatedAt + TickMs
    /\ existingDoc.thoughtCount = ctx.thoughtCount
    /\ existingDoc.taskCount = ctx.taskCount

\* The cache test of processSession
UpToDate(existingDoc, ctx) ==
    /\ existingDoc # NoDocumentation
    /\ existingDoc.generatedAt > ctx.updatedAt
    /\ existingDoc.thoughtCount = ctx.thoughtCount
    /\ existingDoc.taskCount = ctx.taskCount

\* a queueSession that sets a timeout whether or not one is held
ArmTimerAlways(handle, live) == live + 1

\* else if (!this.batchTimer) this.batchTimer = setTimeout(...): the live
\* timeouts after it
ArmTimer(handle, live) == IF handle THEN live ELSE live + 1

\* a processBatch that leaves the timeout it holds running
ClearTimerKept(handle, live) == live

\* if (this.batchTimer) clearTimeout(this.batchTimer): the live timeouts after
\* it (clearing a timeout that has fired does nothing)
ClearTimer(handle, live) == IF handle /\ live > 0 THEN live - 1 ELSE live

\* processBatch up to the await of its generation calls, on the pending
\* entries pq, for the one who awaits it, with `live` timeouts not yet fired.
ProcessBatch(pq, waiter, live) ==
    LET taken == TakeBatch(pq) IN
    /\ batchTimer' = FALSE
    /\ windowTimeouts' = ClearTimer(batchTimer, live)
    /\ pendingQueue' = AfterDelete(pq, taken)
    /\ IF Len(taken) = 0
       THEN flushes' = flushes
       ELSE /\ FreeSlots(flushes, IdleFlush) # {}
            /\ flushes' = [flushes EXCEPT ![FirstFree(flushes, IdleFlush)] =
                              NewFlush(taken, waiter)]

\* a size test that needs more than batchSize entries
SizeReachedStrict(pq) == Len(pq) > config.batchSize

\* if (this.pendingQueue.size >= config.batchSize)
SizeReached(pq) == Len(pq) >= config.batchSize

\* queueSession, called by processSession of handler h
QueueSession(h, ctx) ==
    LET pq == MapPut(pendingQueue, ctx) IN
    IF SizeReached(pq)
    THEN /\ ProcessBatch(pq, [kind |-> "handler", h |-> h], windowTimeouts)
         /\ SetWorker([Worker EXCEPT !.handlers[h].pc = "batch"])
    ELSE /\ pendingQueue' = pq
         /\ batchTimer' = TRUE
         /\ windowTimeouts' = ArmTimer(batchTimer, windowTimeouts)
         /\ flushes' = flushes
         /\ SetWorker(Succeed(Worker, h))

\* a routing that sends a session of exactly the threshold to the summarizer
RouteStrict(ctx) ==
    IF ctx.thoughtCount < SmallSessionThreshold THEN "batch"
    ELSE IF ctx.thoughtCount > STAGE_SIZE THEN "stage" ELSE "single"

\* The routing of processSession (thoughts.length <= 20: the batch processor)
\* and, for the others, of Summarizer.generateDocumentation
\* (thoughts.length > STAGE_SIZE: staged, else single pass).
Route(ctx) ==
    IF ctx.thoughtCount <= SmallSessionThreshold THEN "batch"
    ELSE IF ctx.thoughtCount > STAGE_SIZE THEN "stage" ELSE "single"

\* processSession: getDocumentation has answered; the cache test and the
\* routing by thought count.
DocLoaded(h) ==
    /\ Alive
    /\ handlers[h].pc = "doc"
    /\ LET ctx == handlers[h].ctx
           existingDoc == documentation[handlers[h].ev.sessionId]
       IN IF UpToDate(existingDoc, ctx)
          THEN SetWorker(Succeed(Worker, h)) /\ UNCHANGED batchVars
          ELSE IF Route(ctx) = "batch"
          THEN QueueSession(h, ctx)
          ELSE /\ SetWorker([Worker EXCEPT !.handlers[h].pc = Route(ctx),
                                           !.handlers[h].i = 0])
               /\ UNCHANGED batchVars
    /\ UNCHANGED <<others, now, storeVars, redisVars, lastDrain, shutdownPc>>

\* stagedSummarization: a stage call has answered.
StageAnswered(h) ==
    /\ Alive
    /\ handlers[h].pc = "stage"
    /\ LET i == handlers[h].i + STAGE_SIZE IN
       SetWorker([Worker EXCEPT !.handlers[h].i = i,
                                !.handlers[h].pc =
                                    IF i < handlers[h].ctx.thoughtCount
                                    THEN "stage" ELSE "synthesis"])
    /\ UNCHANGED <<others, now, storeVars, redisVars, lastDrain, shutdownPc, batchVars>>

\* stagedSummarization: the synthesis call has answered (or the one call of
\* singlePassSummarization); the document is built and its write started.
SynthesisAnswered(h) ==
    /\ Alive
    /\ handlers[h].pc \in {"synthesis", "single"}
    /\ SetWorker([Worker EXCEPT !.handlers[h].pc = "save",
                                !.handlers[h].doc = DocumentationEntry(handlers[h].ctx)])
    /\ UNCHANGED <<others, now, storeVars, redisVars, lastDrain, shutdownPc, batchVars>>

\* stagedSummarization: saveDocumentation has answered.
StagedSaved(h) ==
    /\ Alive
    /\ handlers[h].pc = "save"
    /\ documentation' = [documentation EXCEPT ![handlers[h].ctx.id] = handlers[h].doc]
    /\ SetWorker(Succeed(Worker, h))
    /\ UNCHANGED <<others, now, session, thoughts, tasks, redisVars, lastDrain, shutdownPc,
                   batchVars>>

\* A generation call or the write of the staged run fails.
StagedFails(h) ==
    /\ Alive
    /\ handlers[h].pc \in {"stage", "synthesis", "single", "save"}
    /\ SetWorker(Catch(Worker, h, "staged run failed"))
    /\ UNCHANGED <<others, now, storeVars, redisVars, lastDrain, shutdownPc, batchVars>>

\* ZADD: a member the set holds already only has its score changed
ZAdd(zset, member, score) ==
    {e \in zset : e.member # member} \cup {[member |-> member, score |-> score]}

\* scheduleRetry: zadd has answered.
RetryScheduled(h) ==
    /\ Alive
    /\ handlers[h].pc = "zadd"
    /\ retry_queue' = ZAdd(retry_queue, handlers[h].out, handlers[h].score)
    /\ SetWorker(Finish(Worker, h))
    /\ UNCHANGED <<others, now, storeVars, bus, published, dead_letter, lastDrain,
                   shutdownPc, batchVars>>

DeadLetterEntry(hr) ==
    [event |-> hr.out, error |-> hr.err, failedAt |-> hr.score,
     retryCount |-> config.maxRetries]

\* moveToDeadLetter: lpush has answered.
DeadLettered(h) ==
    /\ Alive
    /\ handlers[h].pc = "lpush"
    /\ dead_letter' = <<DeadLetterEntry(handlers[h])>> \o dead_letter
    /\ SetWorker(Finish(Worker, h))
    /\ UNCHANGED <<others, now, storeVars, bus, published, retry_queue, lastDrain,
                   shutdownPc, batchVars>>

\* zadd or lpush throws inside the catch block: handleEvent rejects.  The
\* message callback catches that and logs it.  The interval callback of the
\* retry processor has no catch: its loop ends there, and its rejection is
\* unhandled, which the runtime either only reports or ends the process for.
RetryWriteFails(h) ==
    /\ Alive
    /\ handlers[h].pc \in {"zadd", "lpush"}
    /\ handlers' = [handlers EXCEPT ![h] = IdleHandler]
    /\ LET d == handlers[h].caller IN
       IF d = 0
       THEN UNCHANGED <<drains, shutdownPc>>
       ELSE /\ drains' = [drains EXCEPT ![d] = IdleDrain]
            /\ shutdownPc' \in {shutdownPc, "crashed"}
    /\ UNCHANGED <<others, now, storeVars, redisVars, processedCount, lastDrain, batchVars>>

\* The window timer fires: its callback is processBatch, which nobody awaits.
TimerFires ==
    /\ Alive
    /\ windowTimeouts > 0
    /\ ProcessBatch(pendingQueue, [kind |-> "timer", h |-> 0], windowTimeouts - 1)
    /\ UNCHANGED <<others, now, storeVars, redisVars, workerVars>>

\* The signal handler: worker.shutdown() awaits batchProcessor.flush(), then
\* disconnects, and the process exits.
Shutdown ==
    /\ shutdownPc = "running"
    /\ IF Len(pendingQueue) > 0
       THEN /\ ProcessBatch(pendingQueue, [kind |-> "shutdown", h |-> 0], windowTimeouts)
            /\ shutdownPc' = "flushing"
       ELSE /\ shutdownPc' = "exited"
            /\ UNCHANGED batchVars
    /\ UNCHANGED <<others, now, storeVars, redisVars, handlers, processedCount, drains,
                   lastDrain>>

\* Promise.all of a processBatch call settles: the one who awaits it goes on.
Settle(waiter, ok) ==
    IF waiter.kind = "handler"
    THEN /\ SetWorker(IF ok THEN Succeed(Worker, waiter.h)
                      ELSE Catch(Worker, waiter.h, "batch failed"))
         /\ UNCHANGED shutdownPc
    ELSE IF waiter.kind = "shutdown"
    THEN /\ shutdownPc' = IF ok THEN "exited" ELSE "failed"
         /\ UNCHANGED <<handlers, drains, processedCount>>
    ELSE UNCHANGED <<handlers, drains, processedCount, shutdownPc>>

\* Tier group `tier` of flush f has moved to g: Promise.all rejects with the
\* first group that fails and resolves when both have ended well.
GroupStep(f, tier, g) ==
    LET fl == [flushes[f] EXCEPT ![tier] = g]
        rejects == ~fl.settled /\ g.pc = "failed"
        resolves == /\ ~fl.settled
                    /\ fl.basic.pc \in {"none", "done"}
                    /\ fl.premium.pc \in {"none", "done"}
        over == GroupOver(fl.basic) /\ GroupOver(fl.premium)
    IN  /\ flushes' = [flushes EXCEPT ![f] =
              IF over THEN IdleFlush ELSE [fl EXCEPT !.settled = @ \/ rejects]]
        /\ IF rejects \/ resolves
           THEN Settle(fl.waiter, resolves)
           ELSE UNCHANGED <<handlers, drains, processedCount, shutdownPc>>

\* processTierBatch: the generation call has answered with responseText resp;
\* the response is parsed and the save loop entered.
BatchAnswered(f, tier, resp) ==
    /\ Alive
    /\ flushes[f][tier].pc = "call"
    /\ LET g == flushes[f][tier]
           parsed == DOMAIN parseBatchResponse(resp, g.members)
       IN GroupStep(f, tier, SaveLoop([g EXCEPT !.resp = resp, !.parsed = parsed], 1))
    /\ UNCHANGED <<others, now, storeVars, redisVars, lastDrain, pendingQueue, batchTimer, windowTimeouts>>

\* processTierBatch: saveDocumentation has answered; the loop goes on.
BatchSaved(f, tier) ==
    /\ Alive
    /\ flushes[f][tier].pc = "save"
    /\ LET g == flushes[f][tier] IN
       /\ documentation' = [documentation EXCEPT ![g.members[g.idx].id] = g.doc]
       /\ GroupStep(f, tier, SaveLoop(g, g.idx + 1))
    /\ UNCHANGED <<others, now, session, thoughts, tasks, redisVars, lastDrain,
                   pendingQueue, batchTimer, windowTimeouts>>

\* processTierBatch: the generation call or a write fails.
BatchFails(f, tier) ==
    /\ Alive
    /\ flushes[f][tier].pc \in {"call", "save"}
    /\ GroupStep(f, tier, [NoGroup EXCEPT !.pc = "failed"])
    /\ UNCHANGED <<others, now, storeVars, redisVars, lastDrain, pendingQueue, batchTimer, windowTimeouts>>

(***************************************************************************)
(* The retry processor                                                     *)
(***************************************************************************)
\* the order of a sorted set: by score, then by member
Before(a, b) ==
    \/ a.score < b.score
    \/ /\ a.score = b.score
       /\ \/ a.member.uid < b.member.uid
          \/ a.member.uid = b.member.uid /\ a.member.retryCount < b.member.retryCount

RECURSIVE Sorted(_)
Sorted(zset) ==
    IF zset = {} THEN <<>>
    ELSE LET first == CHOOSE a \in zset : \A b \in zset \ {a} : Before(a, b)
         IN <<first.member>> \o Sorted(zset \ {first})

\* ZRANGEBYSCORE key 0 max
zrangebyscore(zset, max) == Sorted({e \in zset : e.score >= 0 /\ e.score <= max})

\* The interval callback starts: it reads the clock and asks for the due items.
DrainStarts(d) ==
    /\ Alive
    /\ lastDrain < now
    /\ FreeSlots(drains, IdleDrain) # {}
    /\ d = FirstFree(drains, IdleDrain)
    /\ lastDrain' = now
    /\ drains' = [drains EXCEPT ![d] = [IdleDrain EXCEPT !.pc = "range", !.now = now]]
    /\ UNCHANGED <<others, now, storeVars, redisVars, handlers, processedCount, shutdownPc,
                   batchVars>>

\* zrangebyscore has answered; the loop starts with the zrem of the first item.
DrainRead(d) ==
    /\ Alive
    /\ drains[d].pc = "range"
    /\ drains' = [drains EXCEPT ![d] =
          DrainNext([@ EXCEPT !.items = zrangebyscore(retry_queue, drains[d].now)])]
    /\ UNCHANGED <<others, now, storeVars, redisVars, handlers, processedCount, lastDrain,
                   shutdownPc, batchVars>>

\* zrem has answered; the item is handed to handleEvent, which the loop awaits.
DrainRemoved(d) ==
    /\ Alive
    /\ drains[d].pc = "zrem"
    /\ FreeSlots(handlers, IdleHandler) # {}
    /\ LET item == drains[d].items[drains[d].idx] IN
       /\ retry_queue' = {e \in retry_queue : e.member # item}
       /\ IF Accepted(item)
          THEN /\ handlers' = [handlers EXCEPT ![FirstFree(handlers, IdleHandler)] =
                                  StartHandler(item, d)]
               /\ drains' = [drains EXCEPT ![d].pc = "handle"]
          ELSE /\ drains' = [drains EXCEPT ![d] = DrainNext(@)]
               /\ UNCHANGED handlers
    /\ UNCHANGED <<others, now, storeVars, bus, published, dead_letter, processedCount,
                   lastDrain, shutdownPc, batchVars>>


(***************************************************************************)
(* The actions of the scanner                                              *)
(***************************************************************************)
scanFrame == <<parseVars, sumVars, config, budget, now, thoughts, tasks, documentation,
               published, retry_queue, dead_letter, workerVars, batchVars>>

\* start() and the interval callback: scan() is called and awaits the listing.
ScanStarts(c) ==
    /\ Alive
    /\ FreeSlots(scans, IdleScan) # {}
    /\ c = FirstFree(scans, IdleScan)
    /\ scans' = [scans EXCEPT ![c].pc = "list"]
    /\ UNCHANGED <<scanFrame, session, bus>>

\* listActiveSessions has answered; the clock is read and the loop entered.
ScanListed(c) ==
    /\ Alive
    /\ scans[c].pc = "list"
    /\ scans' = [scans EXCEPT ![c] =
          ScanLoop([@ EXCEPT !.now = now, !.items = listActiveSessions], 1)]
    /\ UNCHANGED <<scanFrame, session, bus>>

\* autoFinalize: getTasks has answered; the outcome is derived, the session
\* object changed and its write started.
TasksRead(c) ==
    /\ Alive
    /\ scans[c].pc = "tasks"
    /\ LET it == scans[c].items[scans[c].idx]
           outcome == Outcome(tasks[it.id])
       IN scans' = [scans EXCEPT ![c].pc = "update",
                                 ![c].outcome = outcome,
                                 ![c].sess = [it.rec EXCEPT !.status = "finalized",
                                                            !.outcome = outcome,
                                                            !.autoFinalized = TRUE,
                                                            !.updatedAt = now]]
    /\ UNCHANGED <<scanFrame, session, bus>>

\* autoFinalize: updateSession has answered; the event is built and published.
SessionUpdated(c) ==
    /\ Alive
    /\ scans[c].pc = "update"
    /\ session' = [session EXCEPT ![scans[c].items[scans[c].idx].id] = scans[c].sess]
    /\ scans' = [scans EXCEPT ![c].pc = "publish"]
    /\ UNCHANGED <<scanFrame, bus>>

\* autoFinalize: publish has answered; scan goes on with its next session.
EventPublished(c) ==
    /\ Alive
    /\ scans[c].pc = "publish"
    /\ bus' = Append(bus, IdleTimeoutEvent(scans[c].items[scans[c].idx].id,
                                           scans[c].outcome))
    /\ scans' = [scans EXCEPT ![c] = ScanLoop(@, scans[c].idx + 1)]
    /\ UNCHANGED <<scanFrame, session>>

\* updateSession or publish throws: scan rejects, which start() logs.
ScanFails(c) ==
    /\ Alive
    /\ scans[c].pc \in {"update", "publish"}
    /\ scans' = [scans EXCEPT ![c] = IdleScan]
    /\ UNCHANGED <<scanFrame, session, bus>>

----------------------------------------------------------------------------
IdlePipe ==
    /\ config = [maxRetries |-> 0, batchSize |-> 1]
    /\ budget = [events |-> 0, ticks |-> 0]
    /\ now = 0
    /\ InitStore(FALSE, 0)
    /\ bus = <<>> /\ published = 0 /\ retry_queue = {} /\ dead_letter = <<>>
    /\ handlers = [h \in 1..MaxHandlers |-> IdleHandler]
    /\ processedCount = 0
    /\ drains = [d \in 1..MaxDrains |-> IdleDrain]
    /\ lastDrain = 0
    /\ shutdownPc = "off"
    /\ InitBatch
    /\ scans = [c \in 1..MaxScans |-> IdleScan]

InitP == InitParse /\ IdleSum /\ IdlePipe
NextParse == ParseCall
SpecParse == InitP /\ [][NextParse]_vars

InitS == IdleParse /\ InitSum /\ IdlePipe
NextSum == GenerateDocumentation \/ StageReturns \/ FinalReturns \/ CallFails
SpecSum == InitS /\ [][NextSum]_vars

HandlerStep(h) ==
    \/ ContextLoaded(h)
    \/ DocLoaded(h)
    \/ StageAnswered(h)
    \/ SynthesisAnswered(h)
    \/ StagedSaved(h)
    \/ StagedFails(h)
    \/ RetryScheduled(h)
    \/ DeadLettered(h)

FlushStep(f, tier) ==
    \/ \E resp \in GenerationResponses : BatchAnswered(f, tier, resp)
    \/ BatchSaved(f, tier)
    \/ BatchFails(f, tier)

DrainStep(d) ==
    \/ DrainStarts(d)
    \/ DrainRead(d)
    \/ DrainRemoved(d)

\* The worker with its retry processor: a small session and a large one, the
\* latter stored late.
InitW ==
    /\ IdleParse /\ IdleSum
    /\ InitPipe(Configs, MaxEvents, MaxTicks, FALSE, SmallSessionThreshold + 1)
Next ==
    \/ Tick
    \/ ProducerCreates("s3")
    \/ Publish("session.finalized", "s1")
    \/ Publish("session.idle_timeout", "s3")
    \/ Publish("session.thought", "s1")
    \/ Deliver
    \/ \E h \in 1..MaxHandlers : HandlerStep(h)
    \/ \E f \in 1..MaxFlushes, tier \in Tiers : FlushStep(f, tier)
    \/ \E d \in 1..MaxDrains : DrainStep(d)
Spec == InitW /\ [][Next]_vars

\* The retry processor under events that fail on every delivery (their session
\* is never stored), with drain cycles that may overlap.
InitR ==
    /\ IdleParse /\ IdleSum
    /\ InitPipe(RetryConfigs, MaxEvents, MaxRetryTicks, FALSE, SmallSessionThreshold + 1)
NextRetry ==
    \/ Tick
    \/ Publish("session.finalized", "s3")
    \/ Deliver
    \/ \E h \in 1..MaxHandlers :
          \/ ContextLoaded(h)
          \/ RetryScheduled(h)
          \/ DeadLettered(h)
    \/ \E d \in 1..MaxDrains : DrainStep(d)
SpecRetry == InitR /\ [][NextRetry]_vars

\* The retry processor over a time long enough for the second retry delay to
\* pass while an earlier drain cycle is still in flight.
InitLongRetry ==
    /\ IdleParse /\ IdleSum
    /\ InitPipe(LongRetryConfigs, MaxLongEvents, MaxLongTicks, FALSE, SmallSessionThreshold + 1)
SpecLongRetry == InitLongRetry /\ [][NextRetry]_vars

\* The same, with writes to the retry queue and the dead-letter list that may
\* fail.
NextIsolate ==
    \/ NextRetry
    \/ \E h \in 1..MaxHandlers : RetryWriteFails(h)
SpecIsolate == InitR /\ [][NextIsolate]_vars

\* The batch accumulator under the worker: three small sessions, flushes by
\* size, by the window timer and by shutdown.
InitB ==
    /\ IdleParse /\ IdleSum
    /\ InitPipe(BatchConfigs, MaxBatchEvents, 0, TRUE, 1)
NextBatch ==
    \/ \E id \in SessionIds : Publish("session.finalized", id)
    \/ Deliver
    \/ \E h \in 1..MaxHandlers :
          \/ ContextLoaded(h)
          \/ DocLoaded(h)
          \/ DeadLettered(h)
    \/ TimerFires
    \/ Shutdown
    \/ \E f \in 1..MaxFlushes, tier \in Tiers : FlushStep(f, tier)
SpecBatch == InitB /\ [][NextBatch]_vars

\* The accumulator under repeated events for a session whose context changes
\* while it is pending.
InitPending ==
    /\ IdleParse /\ IdleSum
    /\ InitPipe(BatchConfigs, MaxPendingEvents, 0, TRUE, 1)
NextPending ==
    \/ ProducerAddsTask("s3")
    \/ Publish("session.finalized", "s1")
    \/ Publish("session.finalized", "s3")
    \/ Deliver
    \/ \E h \in 1..MaxHandlers :
          \/ ContextLoaded(h)
          \/ DocLoaded(h)
          \/ DeadLettered(h)
    \/ TimerFires
    \/ \E f \in 1..MaxFlushes, tier \in Tiers : FlushStep(f, tier)
SpecPending == InitPending /\ [][NextPending]_vars

\* Two deliveries for one session that grows past the small-session threshold
\* between them: a batch flush and a staged run of the same session id.
InitRace ==
    /\ IdleParse /\ IdleSum
    /\ InitPipe(RaceConfigs, MaxRaceEvents, MaxRaceTicks, TRUE, 1)
NextRace ==
    \/ Tick
    \/ ProducerAppends("s1")
    \/ Publish("session.finalized", "s1")
    \/ Deliver
    \/ \E h \in 1..MaxHandlers :
          \/ ContextLoaded(h)
          \/ DocLoaded(h)
          \/ StageAnswered(h)
          \/ SynthesisAnswered(h)
          \/ StagedSaved(h)
          \/ StagedFails(h)
          \/ DeadLettered(h)
    \/ \E f \in 1..MaxFlushes, tier \in Tiers : FlushStep(f, tier)
SpecRace == InitRace /\ [][NextRace]_vars

\* The scanner alone: s1 and s2 have been idle for the timeout exactly, s3 is
\* TickMs short of it; the tasks of s1 vary.
TaskLists == UNION {[1..n -> {"pending", "in_progress", "completed"}] : n \in 0..MaxTasks}
Active(at, status) ==
    [updatedAt |-> at, tier |-> "basic", status |-> status, outcome |-> "-",
     autoFinalized |-> FALSE]
InitScan ==
    /\ IdleParse /\ IdleSum
    /\ config = [maxRetries |-> 0, batchSize |-> 1]
    /\ budget = [events |-> 0, ticks |-> (idleTimeoutMs \div TickMs) + MaxScanTicks]
    /\ now = idleTimeoutMs
    /\ session = [id \in SessionIds |->
          IF id = "s1" THEN Active(0, "active")
          ELSE IF id = "s2" THEN Active(0, "completed")
          ELSE Active(TickMs, "active")]
    /\ thoughts = [id \in SessionIds |-> 1]
    /\ \E t1 \in TaskLists :
          tasks = [id \in SessionIds |->
              IF id = "s1" THEN t1 ELSE IF id = "s2" THEN <<"pending">> ELSE <<"completed">>]
    /\ documentation = [id \in SessionIds |-> NoDocumentation]
    /\ bus = <<>> /\ published = 0 /\ retry_queue = {} /\ dead_letter = <<>>
    /\ handlers = [h \in 1..MaxHandlers |-> IdleHandler]
    /\ processedCount = 0
    /\ drains = [d \in 1..MaxDrains |-> IdleDrain]
    /\ lastDrain = 0
    /\ shutdownPc = "running"
    /\ InitBatch
    /\ scans = [c \in 1..MaxScans |-> IdleScan]
NextScan ==
    \/ Tick
    \/ \E c \in 1..MaxScans :
          \/ ScanStarts(c)
          \/ ScanListed(c)
          \/ TasksRead(c)
          \/ SessionUpdated(c)
          \/ EventPublished(c)
          \/ ScanFails(c)
SpecScan == InitScan /\ [][NextScan]_vars

\* Scanners and the worker together: one large session that has been idle
\* for longer than the timeout, scans that may overlap, and generation calls
\* and writes that succeed.
InitJoint ==
    /\ IdleParse /\ IdleSum
    /\ config = [maxRetries |-> 0, batchSize |-> 1]
    /\ budget = [events |-> 0, ticks |-> (idleTimeoutMs \div TickMs) + 1 + MaxJointTicks]
    /\ now = idleTimeoutMs + TickMs
    /\ session = [id \in SessionIds |->
          IF id = "s1" THEN Active(0, "active") ELSE Finalized(0, "basic")]
    /\ thoughts = [id \in SessionIds |-> SmallSessionThreshold + 1]
    /\ tasks = [id \in SessionIds |-> <<"completed">>]
    /\ documentation = [id \in SessionIds |-> NoDocumentation]
    /\ bus = <<>> /\ published = 0 /\ retry_queue = {} /\ dead_letter = <<>>
    /\ handlers = [h \in 1..MaxHandlers |-> IdleHandler]
    /\ processedCount = 0
    /\ drains = [d \in 1..MaxDrains |-> IdleDrain]
    /\ lastDrain = 0
    /\ shutdownPc = "running"
    /\ InitBatch
    /\ scans = [c \in 1..MaxScans |-> IdleScan]
NextJoint ==
    \/ Tick
    \/ \E c \in 1..MaxScans :
          \/ ScanStarts(c)
          \/ ScanListed(c)
          \/ TasksRead(c)
          \/ SessionUpdated(c)
          \/ EventPublished(c)
    \/ Deliver
    \/ \E h \in 1..MaxHandlers :
          \/ ContextLoaded(h)
          \/ DocLoaded(h)
          \/ StageAnswered(h)
          \/ SynthesisAnswered(h)
          \/ StagedSaved(h)
SpecJoint == InitJoint /\ [][NextJoint]_vars

\* The upstream producer finalizes a session explicitly: status, outcome and
\* updatedAt are written; thoughts and tasks stay as they are.
ProducerFinalizes(id) ==
    /\ Alive
    /\ session[id].status \in {"active", "completed"}
    /\ session' = [session EXCEPT ![id] = Finalized(now, session[id].tier)]
    /\ UNCHANGED <<others, now, thoughts, tasks, documentation, redisVars, workerVars,
                   batchVars>>

\* One scanner and the worker with a producer that finalizes: a small session
\* that has been idle for longer than the timeout is finalized explicitly
\* while a scan is under way.
InitFresh ==
    /\ IdleParse /\ IdleSum
    /\ config \in BatchConfigs
    /\ budget = [events |-> MaxFreshEvents,
                 ticks |-> (idleTimeoutMs \div TickMs) + 1 + MaxFreshTicks]
    /\ now = idleTimeoutMs + TickMs
    /\ session = [id \in SessionIds |->
          IF id = "s1" THEN Active(0, "active") ELSE Finalized(0, "basic")]
    /\ thoughts = [id \in SessionIds |-> 1]
    /\ tasks = [id \in SessionIds |-> <<"pending">>]
    /\ documentation = [id \in SessionIds |-> NoDocumentation]
    /\ bus = <<>> /\ published = 0 /\ retry_queue = {} /\ dead_letter = <<>>
    /\ handlers = [h \in 1..MaxHandlers |-> IdleHandler]
    /\ processedCount = 0
    /\ drains = [d \in 1..MaxDrains |-> IdleDrain]
    /\ lastDrain = 0
    /\ shutdownPc = "running"
    /\ InitBatch
    /\ scans = [c \in 1..MaxScans |-> IdleScan]
NextFresh ==
    \/ Tick
    \/ ProducerFinalizes("s1")
    \/ Publish("session.finalized", "s1")
    \/ ScanStarts(1)
    \/ ScanListed(1)
    \/ TasksRead(1)
    \/ SessionUpdated(1)
    \/ EventPublished(1)
    \/ Deliver
    \/ \E h \in 1..MaxHandlers :
          \/ ContextLoaded(h)
          \/ DocLoaded(h)
          \/ DeadLettered(h)
    \/ TimerFires
    \/ \E f \in 1..MaxFlushes, tier \in Tiers : FlushStep(f, tier)
SpecFresh == InitFresh /\ [][NextFresh]_vars

----------------------------------------------------------------------------
(***************************************************************************)
(* Claims                                                                  *)
(***************************************************************************)

\* The ids that have a well-formed block in the response: a SESSION_START
\* marker, a body without markers, a SESSION_END marker.
WellFormedBlockIds(resp) ==
    {resp[p].id : p \in {p \in 1..Len(resp) :
        /\ resp[p].k = "start"
        /\ \E q \in (p + 1)..Len(resp) :
              /\ resp[q].k = "end"
              /\ \A r \in (p + 1)..(q - 1) : resp[r].k = "text"}}

\* C7: the key set of the map parseBatchResponse returns is exactly the set of
\* session ids that have a well-formed SESSION_START/SESSION_END block in the
\* response; an expected id without a block has no entry and raises no error.
C7_KeysAreWellFormedBlocks ==
    parsePc # "ready" =>
        /\ parsePc = "done"
        /\ DOMAIN parsedDocs = WellFormedBlockIds(response)
        /\ \A id \in expected :
              id \notin WellFormedBlockIds(response) => id \notin DOMAIN parsedDocs

\* The number of stages of n thoughts: the least m with m * STAGE_SIZE >= n.
StagesOf(n) ==
    CHOOSE m \in 1..n : m * STAGE_SIZE >= n /\ (m - 1) * STAGE_SIZE < n

\* C5: for n > 20 thoughts the stage calls are issued in increasing stage
\* number over contiguous, disjoint chunks that cover the thoughts in their
\* order (all of size 20 but a possibly shorter last one; 45 thoughts give 20,
\* 20, 5); a finished run has issued exactly ceil(n/20) of them, and the one
\* synthesis call comes only after every stage call has returned, with the
\* stage summaries in stage order.
C5_StagingPartition ==
    Len(sumThoughts) > STAGE_SIZE =>
        LET n == Len(sumThoughts)
            m == StagesOf(n)
            nStage == Cardinality({c \in 1..Len(sumCalls) : sumCalls[c].kind = "stage"})
            nSynth == Cardinality({c \in 1..Len(sumCalls) : sumCalls[c].kind = "synthesis"})
        IN  /\ nStage <= m /\ nSynth <= 1 /\ Len(sumCalls) = nStage + nSynth
            /\ \A k \in 1..nStage :
                  /\ sumCalls[k].kind = "stage"
                  /\ sumCalls[k].stageNum = k
                  /\ sumCalls[k].totalStages = m
                  /\ sumCalls[k].chunk =
                        [j \in 1..(IF k < m THEN STAGE_SIZE ELSE n - (m - 1) * STAGE_SIZE)
                            |-> sumThoughts[(k - 1) * STAGE_SIZE + j]]
            /\ nSynth = 1 =>
                  /\ nStage = m
                  /\ Len(stageSummaries) = m
                  /\ sumCalls[m + 1].summaries = [k \in 1..m |-> sumCalls[k].chunk]
            /\ sumPc = "saved" => nStage = m /\ nSynth = 1
            /\ (sumPc = "saved" /\ n = 45) =>
                  [k \in 1..nStage |-> Len(sumCalls[k].chunk)] = <<20, 20, 5>>

C5_Witness ==
    /\ sumPc = "saved"
    /\ Len(sumThoughts) = 45
    /\ Len(sumCalls) = 4

\* C1: an accepted event that starts with retryCount 0 and fails on every
\* delivery is redelivered exactly maxRetries times and then appears exactly
\* once in the dead-letter list, never to be enqueued again.  Stated here for
\* its last part: no event has two entries in the dead-letter list.
C1_DeadLetteredOnce ==
    \A i, j \in 1..Len(dead_letter) :
        dead_letter[i].event.uid = dead_letter[j].event.uid => i = j

\* The stored document of a session is newer than the session and its counts
\* are the session's current counts.
StoredDocFresh(id) ==
    /\ session[id] # NoSession
    /\ documentation[id] # NoDocumentation
    /\ documentation[id].generatedAt > session[id].updatedAt
    /\ documentation[id].thoughtCount = thoughts[id]
    /\ documentation[id].taskCount = Len(tasks[id])

\* C2: whenever processSession makes its cache test for a session whose stored
\* document is later than the session's updatedAt and whose stored counts
\* equal the current counts, it returns at once: no generation call is issued
\* (no stage call, no flush), the session is not enqueued in the batch
\* accumulator and no document is written.
C2_Idempotence ==
    [][\A h \in 1..MaxHandlers :
          (/\ handlers[h].pc = "doc"
           /\ handlers'[h] # handlers[h]
           /\ StoredDocFresh(handlers[h].ev.sessionId))
          => /\ handlers'[h] = IdleHandler
             /\ processedCount' = processedCount + 1
             /\ UNCHANGED <<pendingQueue, batchTimer, flushes, documentation>>]_vars

C2_Witness ==
    \E h \in 1..MaxHandlers :
        /\ handlers[h].pc = "doc"
        /\ StoredDocFresh(handlers[h].ev.sessionId)
        /\ processedCount > 0

PendingIds == {pendingQueue[j].id : j \in 1..Len(pendingQueue)}
FlushMembers(fl) ==
    {fl.basic.members[j] : j \in 1..Len(fl.basic.members)}
        \cup {fl.premium.members[j] : j \in 1..Len(fl.premium.members)}
JustCalled(fl) ==
    /\ \A tier \in Tiers : fl[tier].pc \in {"none", "call"}
    /\ \A tier \in Tiers : fl[tier].pc = "none" <=> fl[tier].members = <<>>

\* C3: when the pending map holds batchSize - 1 sessions and queueSession is
\* called for a session with another id, the flush happens inside that call
\* (the caller awaits it), it takes the batchSize sessions, and the pending
\* count is zero right after it has taken them.
C3_SizeTrigger ==
    [][\A h \in 1..MaxHandlers :
          LET id == handlers[h].ev.sessionId IN
          (/\ handlers[h].pc = "doc"
           /\ handlers'[h] # handlers[h]
           /\ ~StoredDocFresh(id)
           /\ thoughts[id] <= SmallSessionThreshold
           /\ id \notin PendingIds
           /\ Len(pendingQueue) = config.batchSize - 1)
          => /\ pendingQueue' = <<>>
             /\ ~batchTimer'
             /\ handlers'[h].pc = "batch"
             /\ \E f \in 1..MaxFlushes :
                   /\ flushes[f] = IdleFlush
                   /\ flushes'[f].waiter = [kind |-> "handler", h |-> h]
                   /\ JustCalled(flushes'[f])
                   /\ {c.id : c \in FlushMembers(flushes'[f])} = PendingIds \cup {id}
                   /\ Cardinality(FlushMembers(flushes'[f])) = config.batchSize]_vars

C3_Witness ==
    /\ config.batchSize = MaxBatchSize
    /\ pendingQueue = <<>>
    /\ \E f \in 1..MaxFlushes :
          /\ flushes[f].waiter.kind = "handler"
          /\ handlers[flushes[f].waiter.h].pc = "batch"
          /\ JustCalled(flushes[f])
          /\ Cardinality(FlushMembers(flushes[f])) = MaxBatchSize

\* C4: when the window timer fires with fewer than batchSize sessions
\* pending, the flush it starts processes exactly the sessions pending at that
\* instant, no more and no fewer, and leaves the pending map empty.
C4_WindowTrigger ==
    [][(/\ batchTimer /\ ~batchTimer'
        /\ handlers' = handlers /\ shutdownPc' = shutdownPc
        /\ Len(pendingQueue) < config.batchSize)
       => /\ pendingQueue' = <<>>
          /\ \E f \in 1..MaxFlushes :
                /\ flushes[f] = IdleFlush
                /\ flushes'[f].waiter.kind = "timer"
                /\ JustCalled(flushes'[f])
                /\ FlushMembers(flushes'[f])
                      = {pendingQueue[j] : j \in 1..Len(pendingQueue)}
                /\ \A g \in 1..MaxFlushes : g # f => flushes'[g] = flushes[g]]_vars

C4_Witness ==
    /\ pendingQueue = <<>>
    /\ ~batchTimer
    /\ \E f \in 1..MaxFlushes :
          /\ flushes[f].waiter.kind = "timer"
          /\ JustCalled(flushes[f])
          /\ Cardinality(FlushMembers(flushes[f])) < config.batchSize

\* the outcome the tasks of a session call for
ExpectedOutcome(id) ==
    IF \E k \in 1..Len(tasks[id]) : tasks[id][k] = "completed"
    THEN "completed" ELSE "abandoned"

\* C6: for every session the scanner has auto-finalized, the persisted outcome
\* and the outcome carried by each published idle-timeout event are
\* 'completed' if at least one task of the session has status completed, and
\* 'abandoned' if none has.
C6_IdleOutcome ==
    /\ \A id \in SessionIds :
          session[id].autoFinalized =>
              /\ session[id].status = "finalized"
              /\ session[id].outcome = ExpectedOutcome(id)
    /\ \A j \in 1..Len(bus) :
          bus[j].type = "session.idle_timeout" =>
              /\ session[bus[j].sessionId].autoFinalized
              /\ bus[j].outcome = ExpectedOutcome(bus[j].sessionId)

C6_Witness ==
    /\ session["s1"].autoFinalized /\ session["s1"].outcome = "completed"
    /\ tasks["s1"] = <<"pending", "completed">>
    /\ session["s2"].autoFinalized /\ session["s2"].outcome = "abandoned"
    /\ \E j \in 1..Len(bus) : bus[j].sessionId = "s1" /\ bus[j].outcome = "completed"
    /\ \E j \in 1..Len(bus) : bus[j].sessionId = "s2" /\ bus[j].outcome = "abandoned"

\* C8: the delivery of an event whose type is neither session.finalized nor
\* session.idle_timeout starts no handling and leaves the store, the pending
\* batch, the flushes in flight, the retry queue, the dead-letter list and the
\* processed count unchanged.
C8_OtherEventsDropped ==
    [][(/\ bus # <<>> /\ bus' = Tail(bus)
        /\ Head(bus).type \notin FinalizationTypes)
       => UNCHANGED <<storeVars, handlers, drains, processedCount, pendingQueue,
                      batchTimer, flushes, retry_queue, dead_letter>>]_vars

C8_Witness ==
    /\ bus # <<>>
    /\ Head(bus).type = "session.thought"
    /\ \E h \in 1..MaxHandlers : handlers[h].pc = "doc"

Processing == {"ctx", "doc", "stage", "synthesis", "single", "save", "batch"}

C10_PendingEmptyAfterFlush ==
    shutdownPc \in {"exited", "failed"} => pendingQueue = <<>>

\* C11: each entry placed in the retry queue is resubmitted to handleEvent at
\* most once, also when drain cycles overlap: a drain cycle hands an item to
\* handleEvent only if its own zrem has taken the item out of the retry queue.
C11_ResubmitOnlyRemoved ==
    [][\A d \in 1..MaxDrains :
          (drains[d].pc = "zrem" /\ drains'[d].pc = "handle")
          => \E e \in retry_queue : e.member = drains[d].items[drains[d].idx]]_vars

\* The stored document of a session is stale in the words of the staleness
\* invariant: it is older than the session, or its counts are not the current
\* ones.
StoredDocStale(id) ==
    \/ documentation[id].generatedAt < session[id].updatedAt
    \/ documentation[id].thoughtCount # thoughts[id]
    \/ documentation[id].taskCount # Len(tasks[id])

\* C12: for a session that has a stored document, the cache test of
\* processSession routes the session to batch or staged generation if and only
\* if the document's generatedAt precedes the session's updatedAt or its
\* counts differ from the current counts; a document whose generatedAt equals
\* updatedAt with matching counts is not regenerated.
C12_StalenessDecision ==
    [][\A h \in 1..MaxHandlers :
          LET id == handlers[h].ev.sessionId IN
          (/\ handlers[h].pc = "doc"
           /\ handlers'[h] # handlers[h]
           /\ documentation[id] # NoDocumentation)
          => ((handlers'[h].pc \in {"stage", "batch"} \/ pendingQueue' # pendingQueue)
                <=> StoredDocStale(id))]_vars

\* every session context a flush in flight holds
InFlush == UNION {FlushMembers(flushes[f]) : f \in 1..MaxFlushes}

Ids(members) == {members[j].id : j \in 1..Len(members)}

\* C14: every session of a flush belongs to exactly one tier group, the
\* premium group if and only if its stored tier is 'premium'; one generation
\* call is issued for each non-empty group and none for an empty one, so a
\* flush issues one or two generation calls.
C14_TierGroups ==
    [][\A f \in 1..MaxFlushes :
          (flushes[f] = IdleFlush /\ flushes'[f] # IdleFlush) =>
             LET fl == flushes'[f]
                 calls == {tier \in Tiers : fl[tier].pc = "call"}
             IN /\ \A id \in Ids(fl.premium.members) : session[id].tier = "premium"
                /\ \A id \in Ids(fl.basic.members) : session[id].tier # "premium"
                /\ Ids(fl.basic.members) \cap Ids(fl.premium.members) = {}
                /\ Len(fl.basic.members) + Len(fl.premium.members)
                      = Cardinality(Ids(fl.basic.members) \cup Ids(fl.premium.members))
                /\ Ids(fl.basic.members) \cup Ids(fl.premium.members)
                      = (PendingIds \cup {handlers[h].ev.sessionId :
                                             h \in {fl.waiter.h} \cap (1..MaxHandlers)})
                           \ {pendingQueue'[j].id : j \in 1..Len(pendingQueue')}
                /\ \A tier \in Tiers :
                      /\ fl[tier].pc = "call" <=> fl[tier].members # <<>>
                      /\ fl[tier].pc = "none" <=> fl[tier].members = <<>>
                /\ Cardinality(calls) \in 1..2]_vars

C14_Witness ==
    \E f \in 1..MaxFlushes :
        /\ flushes[f].basic.pc = "call" /\ Len(flushes[f].basic.members) = 1
        /\ flushes[f].premium.pc = "call" /\ Len(flushes[f].premium.members) = 1
        /\ session[flushes[f].premium.members[1].id].tier = "premium"

\* C15: when the response for a tier group lacks the block of one of the
\* group's session ids, the save loop passes that member over: no document is
\* written for it, nothing is added to the retry queue or the dead-letter
\* list, no handler enters its failure path, and every member that does have
\* a block has its document written.  On each step of the save loop (the
\* response arriving, a write returning) the member whose write starts has a
\* block in the response and every member passed over has none.
C15_SilentSkip ==
    [][\A f \in 1..MaxFlushes : \A tier \in Tiers : \A resp \in GenerationResponses :
        LET g == flushes[f][tier]
            g2 == flushes'[f][tier]
            has == WellFormedBlockIds(resp)
            from == IF g.pc = "call" THEN 1 ELSE g.idx + 1
            upto == IF g2.pc = "save" THEN g2.idx - 1 ELSE Len(g.members)
        IN ( \/ BatchAnswered(f, tier, resp)
             \/ BatchSaved(f, tier) /\ resp = g.resp ) =>
           /\ \A m \in from..upto : g.members[m].id \notin has
           /\ g2.pc = "save" => g.members[g2.idx].id \in has
           /\ \A id \in SessionIds :
                 documentation'[id] # documentation[id] =>
                    g.pc = "save" /\ id = g.members[g.idx].id /\ id \in has
           /\ retry_queue' = retry_queue
           /\ dead_letter' = dead_letter
           /\ \A h \in 1..MaxHandlers :
                 handlers'[h].pc \in {"zadd", "lpush"} =>
                    handlers'[h].pc = handlers[h].pc]_vars

\* C16: when a stage call or the synthesis call of a staged run fails, the
\* run issues no later call and saves no document: the handler goes straight
\* to the one write of its failure path (the retry entry, or the dead-letter
\* entry at the maximum), that write adds exactly one entry for the event and
\* ends the handling, and a run that enters its first stage call, redelivered
\* or not, starts at the first thought with no stage done.
C16_StagedAbort ==
    [][\A h \in 1..MaxHandlers :
        LET hr == handlers[h]
            hr2 == handlers'[h]
        IN /\ (hr.pc \in {"stage", "synthesis"} /\ hr2.pc \notin {"stage", "synthesis", "save"}) =>
                 /\ hr2.pc = IF hr.ev.retryCount < config.maxRetries THEN "zadd" ELSE "lpush"
                 /\ hr2.ev = hr.ev
                 /\ documentation' = documentation
                 /\ retry_queue' = retry_queue
                 /\ dead_letter' = dead_letter
           /\ (hr.pc = "zadd" /\ Route(hr.ctx) = "stage" /\ hr2 # hr) =>
                 /\ hr2.pc = "idle"
                 /\ documentation' = documentation
                 /\ dead_letter' = dead_letter
                 /\ \E e \in retry_queue' :
                       /\ e.member = [hr.ev EXCEPT !.retryCount = hr.ev.retryCount + 1]
                       /\ retry_queue' \ {e} \subseteq retry_queue
           /\ (hr.pc = "lpush" /\ Route(hr.ctx) = "stage" /\ hr2 # hr) =>
                 /\ hr2.pc = "idle"
                 /\ documentation' = documentation
                 /\ retry_queue' = retry_queue
                 /\ Len(dead_letter') = Len(dead_letter) + 1
                 /\ dead_letter'[1].event = hr.ev
                 /\ Tail(dead_letter') = dead_letter
           /\ (hr.pc # "stage" /\ hr2.pc = "stage") =>
                 hr.pc = "doc" /\ hr2.i = 0]_vars

\* a staged run that got past its first stage has failed and is on its
\* failure path, and the session has no document
C16_Witness ==
    \E h \in 1..MaxHandlers :
        /\ handlers[h].pc \in {"zadd", "lpush"}
        /\ Route(handlers[h].ctx) = "stage"
        /\ handlers[h].i > 0
        /\ documentation[handlers[h].ev.sessionId] = NoDocumentation

\* C17: in every reachable state every entry of the retry queue carries a
\* retryCount between 1 and maxRetries; the entry a failed delivery writes
\* carries the retryCount of that delivery plus one, and the event the retry
\* processor hands to handleEvent is the member it read from the retry queue,
\* so each redelivery carries a retryCount exactly one greater than the
\* delivery that failed before it.
C17_RetryCount ==
    /\ [](\A e \in retry_queue : e.member.retryCount \in 1..config.maxRetries)
    /\ [][\A h \in 1..MaxHandlers :
            LET hr == handlers[h]
                hr2 == handlers'[h]
            IN /\ (hr.pc = "zadd" /\ hr2 # hr) =>
                     \E e \in retry_queue' :
                        /\ e.member = [hr.ev EXCEPT !.retryCount = hr.ev.retryCount + 1]
                        /\ retry_queue' \ {e} \subseteq retry_queue
               /\ (hr.pc = "idle" /\ hr2.pc # "idle" /\ hr2.caller # 0) =>
                     /\ drains[hr2.caller].pc = "zrem"
                     /\ hr2.ev = drains[hr2.caller].items[drains[hr2.caller].idx]
                     /\ hr2.ev.retryCount \in 1..config.maxRetries
         ]_vars
    /\ [][\A d \in 1..MaxDrains :
            (drains[d].pc = "range" /\ drains'[d].pc = "zrem") =>
               \A j \in 1..Len(drains'[d].items) :
                  \E e \in retry_queue : e.member = drains'[d].items[j]]_vars

\* the retry queue holds an entry with retryCount 2 while a redelivery with
\* retryCount 1 has been handed to handleEvent by the retry processor
C17_Witness ==
    /\ config.maxRetries = 2
    /\ \E e \in retry_queue : e.member.retryCount = 2
    /\ \E h \in 1..MaxHandlers :
          handlers[h].pc # "idle" /\ handlers[h].caller # 0 /\ handlers[h].ev.retryCount = 1

\* C18: in every execution of shutdown the pending map is empty when the
\* connections are released (the step after which the process has exited),
\* and every session that is pending when shutdown starts is, after that
\* step, a member of a tier group whose generation call is in flight.
C18_ShutdownOrdering ==
    [][/\ (shutdownPc = "running" /\ shutdownPc' # "running") =>
             \A j \in 1..Len(pendingQueue) :
                \E f \in 1..MaxFlushes : \E tier \in Tiers :
                   /\ flushes'[f][tier].pc = "call"
                   /\ flushes[f][tier].pc # "call"
                   /\ pendingQueue[j].id \in Ids(flushes'[f][tier].members)
       /\ (shutdownPc # "exited" /\ shutdownPc' = "exited") =>
             pendingQueue' = <<>>]_vars

\* C19: a document write never replaces the stored document of a session by
\* one generated from an older snapshot of that session.  Thoughts are only
\* ever added, so of two snapshots of a session the one with fewer thoughts
\* is the older; with the session growing past the threshold between two
\* deliveries, the older snapshot is the one in the batch flush and the newer
\* the one of the staged run.
C19_NoStaleOverwrite ==
    [][\A id \in SessionIds :
          (documentation[id] # NoDocumentation /\ documentation'[id] # documentation[id])
          => documentation'[id].thoughtCount >= documentation[id].thoughtCount]_vars

\* C20: a failure while handling one event does not halt the handling of
\* others.  When the failure path of a handler ends, whether its write went
\* through or threw, the worker is still running, the bus and the other
\* handlers are untouched; and when a retry drain cycle had handed the event
\* over, the event is in the retry queue (with its count raised by one) or at
\* the head of the dead-letter list, and the cycle goes on with its next due
\* item.
C20_FailureIsolation ==
    [][\A h \in 1..MaxHandlers :
        LET hr == handlers[h]
            hr2 == handlers'[h]
        IN (hr.pc \in {"zadd", "lpush"} /\ hr2 # hr) =>
           /\ shutdownPc' = shutdownPc
           /\ bus' = bus
           /\ \A k \in 1..MaxHandlers : k # h => handlers'[k] = handlers[k]
           /\ hr.caller # 0 =>
                 /\ drains'[hr.caller] = DrainNext(drains[hr.caller])
                 /\ hr.pc = "zadd" =>
                       \E e \in retry_queue' : e.member = hr.out
                 /\ hr.pc = "lpush" =>
                       /\ Len(dead_letter') = Len(dead_letter) + 1
                       /\ dead_letter'[1].event = hr.ev]_vars

\* C21: an accepted event whose session is absent when its context is read
\* is neither dropped nor dead-lettered while its retryCount is below
\* maxRetries: it is scheduled for retry with retryCount + 1 and a due time
\* that lies a whole retry delay after now.  A delivery, first or repeated,
\* that finds the session goes on to the cache test with the context read.
\* A dead-letter entry for "Session not found" is written only by a delivery
\* with retryCount = maxRetries.
C21_NotFoundTransient ==
    [][\A h \in 1..MaxHandlers :
          LET a == handlers[h]
              b == handlers'[h]
              rc == a.ev.retryCount
              id == a.ev.sessionId
          IN
          /\ (a.pc = "ctx" /\ b # a /\ session[id] = NoSession /\ rc < config.maxRetries) =>
                /\ b.pc = "zadd"
                /\ b.out = [a.ev EXCEPT !.retryCount = rc + 1]
                /\ b.score = now + retryDelays[Min(rc + 1, Len(retryDelays))]
                /\ UNCHANGED <<dead_letter, retry_queue, processedCount>>
          /\ (a.pc = "ctx" /\ b # a /\ session[id] = NoSession /\ rc >= config.maxRetries) =>
                /\ rc = config.maxRetries
                /\ b.pc = "lpush"
                /\ b.out = a.ev
          /\ (a.pc = "ctx" /\ b # a /\ session[id] # NoSession) =>
                /\ b.pc = "doc"
                /\ b.ev = a.ev
                /\ b.ctx = getSessionContext(id)
          /\ (a.pc = "lpush" /\ a.err = "Session not found" /\ b # a) =>
                /\ rc = config.maxRetries
                /\ dead_letter'[1].event = a.ev
                /\ dead_letter'[1].error = "Session not found"]_vars

\* an event that was not found at its first delivery and scheduled for retry
\* is, redelivered by the retry processor with the session now stored, in its
\* staged run
C21_Witness ==
    \E h \in 1..MaxHandlers :
        /\ handlers[h].ev.sessionId = "s3"
        /\ handlers[h].ev.retryCount = 1
        /\ handlers[h].caller # 0
        /\ handlers[h].pc = "stage"
        /\ session["s3"] # NoSession

\* The pending entry of session id, if any
PendingOf(pq, id) == {pq[j] : j \in {j \in 1..Len(pq) : pq[j].id = id}}

C23_AutoFinalizeSequence ==
    [][\A c \in 1..MaxScans :
          LET sc == scans[c]
              id == sc.items[sc.idx].id
          IN
          /\ (sc.pc = "update" /\ scans'[c].pc = "publish") =>
                /\ session'[id].status = "finalized"
                /\ session'[id].autoFinalized
                /\ session'[id].updatedAt >= sc.now
                /\ session'[id].outcome = sc.outcome
                /\ bus' = bus
          /\ (sc.pc = "publish" /\ scans'[c] # sc) =>
                /\ Len(bus') = Len(bus) + 1
                /\ bus'[Len(bus')] = IdleTimeoutEvent(id, sc.outcome)
                /\ session' = session]_vars

\* Nothing is in flight: the bus is empty and no handler and no scan is running
Quiescent ==
    /\ bus = <<>>
    /\ \A h \in 1..MaxHandlers : handlers[h] = IdleHandler
    /\ \A c \in 1..MaxScans : scans[c] = IdleScan

\* C24: when two scans have both listed the same idle session, both
\* auto-finalized it and both published an idle-timeout event, then once both
\* events are handled the session is finalized and its stored document is not
\* stale; and the handling of an idle-timeout event that finds a document
\* already stored for the session ends at the cache test, without a
\* generation call (documents generated at the very clock reading of the
\* session's updatedAt are left aside here).
C24_ConcurrentScannersSafe ==
    /\ [](\A id \in SessionIds :
            (Quiescent /\ processedCount >= 2 /\ session[id].autoFinalized) =>
               /\ session[id].status = "finalized"
               /\ documentation[id] # NoDocumentation
               /\ ~StoredDocStale(id))
    /\ [][\A h \in 1..MaxHandlers :
            LET a == handlers[h] IN
            ( /\ a.pc = "doc"
              /\ handlers'[h] # a
              /\ a.ev.type = "session.idle_timeout"
              /\ documentation[a.ev.sessionId] # NoDocumentation
              /\ documentation[a.ev.sessionId].generatedAt # a.ctx.updatedAt ) =>
               /\ handlers'[h] = IdleHandler
               /\ processedCount' = processedCount + 1]_vars

\* C25: when the generation call of a tier group fails, in a flush started by
\* the size threshold or by the window timer, every session of that group
\* has its event on the failure path of handleEvent after that step: a
\* handler holding an event of that session is about to write the retry entry
\* (retryCount + 1) or, at the maximum, the dead-letter entry.
C25_BatchFailureRetried ==
    [][\A f \in 1..MaxFlushes : \A tier \in Tiers :
          LET g == flushes[f][tier] IN
          ( /\ BatchFails(f, tier)
            /\ g.pc = "call"
            /\ flushes[f].waiter.kind \in {"handler", "timer"} ) =>
             \A m \in 1..Len(g.members) :
                \E h \in 1..MaxHandlers :
                   /\ handlers'[h].pc \in {"zadd", "lpush"}
                   /\ handlers'[h].ev.sessionId = g.members[m].id
                   /\ handlers'[h].out.retryCount =
                         IF handlers'[h].pc = "zadd" THEN handlers'[h].ev.retryCount + 1
                         ELSE handlers'[h].ev.retryCount]_vars

\* C26: in every retry drain cycle the removal of an item from the retry
\* queue comes before the call of handleEvent for it: the step that hands an
\* item to handleEvent leaves no entry of that item in the retry queue, no
\* item is in the retry queue with a due time at or before the read time of
\* the cycle that is reprocessing it, and the entries a cycle removes are
\* due at or before the cycle's read time.
C26_RemovalIsCommit ==
    /\ [](\A h \in 1..MaxHandlers :
            (handlers[h].pc # "idle" /\ handlers[h].caller # 0) =>
               \A e \in retry_queue :
                  e.member = handlers[h].ev => e.score > drains[handlers[h].caller].now)
    /\ [][\A d \in 1..MaxDrains :
            (drains[d].pc = "zrem" /\ drains'[d] # drains[d]) =>
               LET item == drains[d].items[drains[d].idx] IN
               /\ \A e \in retry_queue' : e.member # item
               /\ \A e \in retry_queue \ retry_queue' :
                     e.member = item /\ e.score <= drains[d].now
               /\ \A h \in 1..MaxHandlers :
                     (handlers[h].pc = "idle" /\ handlers'[h].pc # "idle") =>
                        handlers'[h].ev = item /\ handlers'[h].caller = d]_vars

\* The flushes in progress
BusyFlushes(fl) == {f \in DOMAIN fl : fl[f] # IdleFlush}

\* C27: under any interleaving of queueSession calls, size-triggered flushes,
\* timer firings and flush(), at most one window timeout is live and it is the
\* one the batchTimer field holds; a firing uses its timeout up and starts at
\* most one flush; and after a flush started by queueSession at the batch size
\* or by flush(), no timeout is left to fire.
C27_SingleWindowTimer ==
    /\ [](windowTimeouts <= 1 /\ (batchTimer <=> windowTimeouts = 1))
    /\ [][/\ TimerFires =>
               /\ windowTimeouts' = windowTimeouts - 1
               /\ Cardinality(BusyFlushes(flushes')) <= Cardinality(BusyFlushes(flushes)) + 1
          /\ ((\/ \E h \in 1..MaxHandlers :
                     handlers[h].pc # "batch" /\ handlers'[h].pc = "batch"
               \/ shutdownPc = "running" /\ shutdownPc' = "flushing")
              => windowTimeouts' = 0 /\ ~batchTimer')]_vars

\* a queueSession that reached the batch size while a window timer was armed
\* has cancelled it and awaits its flush
C27_Witness ==
    /\ config.batchSize = 2
    /\ windowTimeouts = 0
    /\ ~batchTimer
    /\ \E h \in 1..MaxHandlers : handlers[h].pc = "batch"
    /\ \E f \in 1..MaxFlushes : /\ flushes[f] # IdleFlush
           /\ Len(flushes[f].basic.members) + Len(flushes[f].premium.members) = 2

\* C28: a scan writes a session record only when the stored record has status
\* active or completed and has been idle, at the time the scan read the clock,
\* for strictly longer than the timeout; it publishes only for a session it
\* has auto-finalized; every other record stays as it is; and a record that is
\* auto-finalized is neither written nor published for again.
C28_ScannerSelectivity ==
    /\ [](\A id \in SessionIds :
             Cardinality({i \in 1..Len(bus) : bus[i].sessionId = id}) <= 1)
    /\ [][/\ \A id \in SessionIds :
               session'[id] # session[id] =>
                   /\ session[id].status \in {"active", "completed"}
                   /\ ~session[id].autoFinalized
                   /\ \E c \in 1..MaxScans :
                         /\ scans[c].pc = "update" /\ scans'[c].pc = "publish"
                         /\ scans[c].items[scans[c].idx].id = id
                         /\ scans[c].now - session[id].updatedAt > idleTimeoutMs
          /\ Len(bus') > Len(bus) =>
                LET ev == bus'[Len(bus')] IN
                /\ ev.type = "session.idle_timeout"
                /\ session[ev.sessionId].autoFinalized
                /\ session[ev.sessionId].status = "finalized"]_vars

\* A step in which processBatch runs: the window timer fires, a queueSession
\* reaches the batch size, or flush() finds pending sessions
ProcessBatchRuns ==
    \/ TimerFires
    \/ \E h \in 1..MaxHandlers : handlers[h].pc # "batch" /\ handlers'[h].pc = "batch"
    \/ shutdownPc = "running" /\ shutdownPc' = "flushing"

\* C29: between the synchronous sections of queueSession and processBatch
\* the number of pending sessions is strictly less than batchSize, and every
\* processBatch call leaves the pending map empty.
C29_PendingBound ==
    /\ [](config.batchSize >= 1 => Len(pendingQueue) < config.batchSize)
    /\ [][ProcessBatchRuns => pendingQueue' = <<>>]_vars

\* with batchSize 2, a session is pending again after the window timer has
\* flushed the one before it
C29_Witness ==
    /\ config.batchSize = 2
    /\ Len(pendingQueue) = 1
    /\ \E f \in 1..MaxFlushes : flushes[f].waiter.kind = "timer"

\* C30: for batchSize >= 2, between the synchronous sections of the
\* accumulator the window timer is armed, with its timeout live, exactly when
\* the pending map is not empty.
C30_TimerPendingCoupling ==
    config.batchSize >= 2 =>
        /\ batchTimer <=> Len(pendingQueue) > 0
        /\ windowTimeouts = (IF Len(pendingQueue) > 0 THEN 1 ELSE 0)

\* with batchSize 2, the timer is armed again for one pending session after
\* an earlier flush has run to its end and saved a document
C30_Witness ==
    /\ config.batchSize = 2
    /\ batchTimer /\ windowTimeouts = 1
    /\ Len(pendingQueue) = 1
    /\ \A f \in 1..MaxFlushes : flushes[f] = IdleFlush
    /\ \E id \in SessionIds : documentation[id] # NoDocumentation

\* The flushes with a generation call awaiting its response
InFlight(fl) == {f \in DOMAIN fl : \E tier \in Tiers : fl[f][tier].pc = "call"}

\* The step of processSession of handler h that calls queueSession
Enqueues(h) ==
    /\ DocLoaded(h)
    /\ ~UpToDate(documentation[handlers[h].ev.sessionId], handlers[h].ctx)
    /\ Route(handlers[h].ctx) = "batch"

\* C31: a session enqueued while a flush's generation call awaits its response
\* is not made part of that flush: it stays pending with the window timer
\* armed, or is taken by a flush of its own that starts in the same step; no
\* step of a flush in flight changes the pending map or the timer; and as long
\* as a session is pending the process is alive with a timeout live, so that a
\* later trigger flushes it.
C31_EnqueueDuringFlush ==
    /\ [][/\ \A h \in 1..MaxHandlers :
               (Enqueues(h) /\ InFlight(flushes) # {}) =>
                   LET id == handlers[h].ctx.id IN
                   /\ \A f \in InFlight(flushes) : flushes'[f] = flushes[f]
                   /\ \/ /\ id \in Ids(pendingQueue')
                         /\ batchTimer' /\ windowTimeouts' = 1
                      \/ \E f \in 1..MaxFlushes :
                            /\ flushes[f] = IdleFlush
                            /\ id \in Ids(flushes'[f].basic.members)
                                         \cup Ids(flushes'[f].premium.members)
          /\ \A f \in 1..MaxFlushes, tier \in Tiers :
               FlushStep(f, tier) =>
                   UNCHANGED <<pendingQueue, batchTimer, windowTimeouts>>]_vars
    /\ [](pendingQueue # <<>> => Alive /\ batchTimer /\ windowTimeouts = 1)

\* The session contexts from which a document of session id is saved in this
\* step, by a staged run or by the save loop of a tier group
SavedFrom(id) ==
    {handlers[h].ctx : h \in {x \in 1..MaxHandlers :
                                 handlers[x].ctx.id = id /\ StagedSaved(x)}}
    \cup {flushes[ft[1]][ft[2]].members[flushes[ft[1]][ft[2]].idx] :
             ft \in {x \in (1..MaxFlushes) \X Tiers :
                        /\ flushes[x[1]][x[2]].pc = "save"
                        /\ flushes[x[1]][x[2]].members[flushes[x[1]][x[2]].idx].id = id
                        /\ BatchSaved(x[1], x[2])}}

\* The stored document of a session passes the staleness check
PassesCheck(docs, sess, th, tk, id) ==
    /\ docs[id] # NoDocumentation
    /\ docs[id].generatedAt > sess[id].updatedAt
    /\ docs[id].thoughtCount = th[id]
    /\ docs[id].taskCount = Len(tk[id])

\* C32: a document that passes the staleness check once it is saved was
\* generated from a context that is still the current one: the session has
\* not been written since the context was loaded, so that the updatedAt the
\* context carries is the stored one.
C32_FreshMeansCurrent ==
    [][\A id \in SessionIds :
          (/\ documentation'[id] # documentation[id]
           /\ PassesCheck(documentation', session', thoughts', tasks', id))
          => \E ctx \in SavedFrom(id) : ctx.updatedAt = session[id].updatedAt]_vars

\* C33: a step of a batch flush writes a document only for a member of the
\* tier group whose call brought the response, and only if the response has a
\* block that parses under that member's id; the save loop moves forward, so
\* no member is written twice in a flush; an id that the response names but
\* that is not a member gets no document; and the counts of the document
\* written are those of the member's enqueued context.
C33_WritesConfined ==
    [][\A f \in 1..MaxFlushes : \A tier \in Tiers :
          FlushStep(f, tier) =>
             LET g == flushes[f][tier]
                 g2 == flushes'[f][tier]
                 docs == parseBatchResponse(g.resp, g.members)
             IN /\ \A id \in SessionIds :
                      documentation'[id] # documentation[id] =>
                         /\ g.pc = "save"
                         /\ id = g.members[g.idx].id
                         /\ id \in DOMAIN docs
                         /\ documentation'[id].thoughtCount = g.members[g.idx].thoughtCount
                         /\ documentation'[id].taskCount = g.members[g.idx].taskCount
                /\ \A id \in (DOMAIN docs) \ Ids(g.members) :
                      documentation'[id] = documentation[id]
                /\ (g.pc = "save" /\ g2.pc = "save") =>
                      /\ g2.idx > g.idx
                      /\ g2.members = g.members
                      /\ g2.members[g2.idx].id # g.members[g.idx].id]_vars

\* the first member of a group of two has its document saved and the write
\* of the second is under way, from a response that also has a block for an
\* id outside the group, which has no document
C33_Witness ==
    \E f \in 1..MaxFlushes : \E tier \in Tiers :
        LET g == flushes[f][tier] IN
        /\ g.pc = "save" /\ g.idx = 2
        /\ documentation[g.members[1].id] # NoDocumentation
        /\ \E id \in g.parsed \ Ids(g.members) : documentation[id] = NoDocumentation

====
